---- MODULE Spec2Model ----
(***************************************************************************)
(* Model of src/src/sampler.ts: the ContractOperation protocol, the route  *)
(* expansion (getSellQuoteOperations / getBuyQuoteOperations), the batch   *)
(* composition (createBatch) and the batch executor                        *)
(* (Sampler.executeBatchAsync) with its single suspension point.           *)
(***************************************************************************)
EXTENDS Integers, Sequences, FiniteSets, TLC

VARIABLES
    samplerOverrides,   \* Sampler.samplerOverrides, fixed at construction
    pc,                 \* per call: where the caller / executeBatchAsync stands
    req,                \* per call: the arguments the caller used to build its operations
    ops,                \* per call: the operations handed to executeBatchAsync
    callDatas,          \* per call: local callDatas of executeBatchAsync
    sent,               \* per call: the remote invocations made, in order
    chain,              \* per call: the remote state its invocation was evaluated on
    rawCallResults,     \* per call: local rawCallResults of executeBatchAsync
    handled,            \* per call: handler invocations on ops[i], in order
    outcome,            \* per call: what the call returned or threw
    beside              \* per call: the calls that were suspended when it resumed

vars == <<samplerOverrides, pc, req, ops, callDatas, sent, chain,
          rawCallResults, handled, outcome, beside>>

(***************************************************************************)
(* Bounds of the model.                                                    *)
(***************************************************************************)
MaxRoutes == 2      \* longest routes list given to the expansion
MaxOps == 2         \* longest list of plain operations given to the executor
MaxAmounts == 2     \* longest amounts list
MaxSamples == 2     \* longest quantity list a remote sub-call returns
MaxCalls == 2       \* executeBatchAsync calls in flight on one Sampler

(***************************************************************************)
(* Byte strings: call data, return data, revert data and NULL_BYTES.       *)
(***************************************************************************)
Bytes(tag, fn, path, vals, sub) ==
    [tag |-> tag, fn |-> fn, path |-> path, vals |-> vals, sub |-> sub]

NULL_BYTES == Bytes("0x0", "", <<>>, <<>>, <<>>)

\* rawSubcallResults[i] / rawCallResults[i] read past the end of the array
UNDEFINED_BYTES == Bytes("undefined", "", <<>>, <<>>, <<>>)

\* Interface.encodeFunctionData(fragment, [tokenAddressPath, fillAmounts])
encodeFunctionData(functionName, path, amounts) ==
    Bytes("call", functionName, path, amounts, <<>>)

\* Interface.encodeFunctionData('batchCall', [subCalls])
encodeBatchCall(subCalls) ==
    Bytes("call", "batchCall", <<>>, <<>>, subCalls)

\* return data of a sample function: one uint256[]
QuantitiesData(quantities) == Bytes("uint256[]", "", <<>>, quantities, <<>>)

\* return data of batchCall: one bytes[] named callResults
BatchData(subResults) == Bytes("bytes[]", "", <<>>, <<>>, subResults)

\* the per-slot bytes of a sub-call that reverted
RevertData == Bytes("error", "", <<>>, <<>>, <<>>)

(***************************************************************************)
(* Results of the handlers. A thrown error is the result "DecodeError".    *)
(***************************************************************************)
Res(kind, by, vals, rows, raw, parts) ==
    [kind |-> kind, by |-> by, vals |-> vals, rows |-> rows, raw |-> raw,
     parts |-> parts]

\* BigNumber[]: what a SamplerContractOperation decodes
Quantities(vals) == Res("quantities", "", vals, <<>>, NULL_BYTES, <<>>)
\* DexSample[][]: what the quotes resultHandler builds
Samples(rows) == Res("samples", "", <<>>, rows, NULL_BYTES, <<>>)
\* what the operation named `by` makes of the bytes it is handed
Echo(by, raw) == Res("echo", by, <<>>, <<>>, raw, <<>>)
\* what the collecting resultHandler builds
Combined(parts) == Res("combined", "", <<>>, <<>>, NULL_BYTES, parts)
\* decodeFunctionResult throws
DecodeError == Res("DecodeError", "", <<>>, <<>>, NULL_BYTES, <<>>)

Threw(r) == r.kind = "DecodeError"

\* amounts[j] read past the end of the array
UNDEFINED == 0 - 1

DexSample(protocol, input, output) ==
    [protocol |-> protocol, input |-> input, output |-> output]

(***************************************************************************)
(* Operations (ContractOperation). A resultHandler closure is the record   *)
(* of what it captured.                                                    *)
(***************************************************************************)
Protocols == {"UniswapV2", "SushiSwap", "Curve"}

NoHandler == [name |-> "none", routes |-> <<>>, amounts |-> <<>>]

Op(kind, protocol, functionName, path, amounts, subOps, resultHandler) ==
    [kind |-> kind, protocol |-> protocol, functionName |-> functionName,
     path |-> path, amounts |-> amounts, subOps |-> subOps,
     resultHandler |-> resultHandler]

\* new SamplerContractOperation({protocol, contractInterface, functionName, functionParams})
SamplerContractOperation(protocol, functionName, path, amounts) ==
    Op("source", protocol, functionName, path, amounts, <<>>, NoHandler)

\* an implementation of ContractOperation whose encodeCall() is NULL_BYTES
NullOperation(name) ==
    Op("null", name, "", <<>>, <<>>, <<>>, NoHandler)

\* mutant: the protocol argument is dropped, the default tag is used
getUniswapV2SellQuotes_default(tokenAddressPath, takerFillAmounts, protocol) ==
    SamplerContractOperation("UniswapV2", "sampleSellsFromUniswapV2",
                             tokenAddressPath, takerFillAmounts)

getUniswapV2SellQuotes(tokenAddressPath, takerFillAmounts, protocol) ==
    SamplerContractOperation(protocol, "sampleSellsFromUniswapV2",
                             tokenAddressPath, takerFillAmounts)

getUniswapV2BuyQuotes(tokenAddressPath, makerFillAmounts, protocol) ==
    SamplerContractOperation(protocol, "sampleBuysFromUniswapV2",
                             tokenAddressPath, makerFillAmounts)

\* private createBatch(subOps, resultHandler, revertHandler)
createBatch(subOps, resultHandler) ==
    Op("batch", "", "batchCall", <<>>, <<>>, subOps, resultHandler)

(***************************************************************************)
(* Route expansion.                                                        *)
(***************************************************************************)
\* the case labels of the switch on route.protocol
Supported(protocol) == protocol \in {"UniswapV2", "SushiSwap"}

Built(list) == [threw |-> FALSE, error |-> "", protocol |-> "", ops |-> list]
Unsupported(error, protocol) ==
    [threw |-> TRUE, error |-> error, protocol |-> protocol, ops |-> <<>>]

\* _.map visits the routes in order: the first default branch throws
FirstUnsupported(routes) ==
    CHOOSE i \in 1..Len(routes) :
        /\ ~Supported(routes[i].protocol)
        /\ \A k \in 1..(i - 1) : Supported(routes[k].protocol)

\* mutant: an unsupported route is skipped instead of throwing
getSellQuoteOperations_partial(amounts, routes) ==
    LET kept == SelectSeq(routes, LAMBDA route : Supported(route.protocol))
    IN  Built([i \in 1..Len(kept) |->
                 getUniswapV2SellQuotes(kept[i].path, amounts, kept[i].protocol)])

getSellQuoteOperations(amounts, routes) ==
    IF \E i \in 1..Len(routes) : ~Supported(routes[i].protocol)
    THEN Unsupported("Unsupported sell sample protocol",
                     routes[FirstUnsupported(routes)].protocol)
    ELSE Built([i \in 1..Len(routes) |->
                  getUniswapV2SellQuotes(routes[i].path, amounts, routes[i].protocol)])

getBuyQuoteOperations(amounts, routes) ==
    IF \E i \in 1..Len(routes) : ~Supported(routes[i].protocol)
    THEN Unsupported("Unsupported buy sample protocol",
                     routes[FirstUnsupported(routes)].protocol)
    ELSE Built([i \in 1..Len(routes) |->
                  getUniswapV2BuyQuotes(routes[i].path, amounts, routes[i].protocol)])

\* the resultHandler closure of getSellQuotes / getBuyQuotes
QuotesHandler(amounts, routes) ==
    [name |-> "quotes", routes |-> routes, amounts |-> amounts]

\* a caller-supplied resultHandler that keeps the results as they are
CollectHandler == [name |-> "collect", routes |-> <<>>, amounts |-> <<>>]

getSellQuotes(amounts, routes) ==
    LET subOps == getSellQuoteOperations(amounts, routes)
    IN  IF subOps.threw THEN subOps
        ELSE Built(<<createBatch(subOps.ops, QuotesHandler(amounts, routes))>>)

getBuyQuotes(amounts, routes) ==
    LET subOps == getBuyQuoteOperations(amounts, routes)
    IN  IF subOps.threw THEN subOps
        ELSE Built(<<createBatch(subOps.ops, QuotesHandler(amounts, routes))>>)

(***************************************************************************)
(* encodeCall, handleCallResults, handleRevert.                            *)
(***************************************************************************)
RECURSIVE encodeCall(_)
encodeCall(op) ==
    CASE op.kind = "source" ->
            encodeFunctionData(op.functionName, op.path, op.amounts)
      [] op.kind = "null" -> NULL_BYTES
      [] op.kind = "batch" ->
            encodeBatchCall([i \in 1..Len(op.subOps) |-> encodeCall(op.subOps[i])])

\* array[i], undefined past the end
BytesAt(array, i) == IF i \in 1..Len(array) THEN array[i] ELSE UNDEFINED_BYTES
AmountAt(amounts, j) == IF j \in 1..Len(amounts) THEN amounts[j] ELSE UNDEFINED

\* mutant: input and output are swapped
SampleRow_swapped(route, sample, amounts) ==
    [j \in 1..Len(sample) |-> DexSample(route.protocol, sample[j], AmountAt(amounts, j))]

\* the row the quotes resultHandler builds for routes[i]
SampleRow(route, sample, amounts) ==
    [j \in 1..Len(sample) |-> DexSample(route.protocol, AmountAt(amounts, j), sample[j])]

\* _.map(routes, (route, i) => _.map(samples[i], ...)); _.map(undefined) is []
QuotesResult(handler, results) ==
    Samples([i \in 1..Len(handler.routes) |->
               SampleRow(handler.routes[i],
                         IF i \in 1..Len(results) THEN results[i].vals ELSE <<>>,
                         handler.amounts)])

resultHandler(handler, results) ==
    IF handler.name = "quotes" THEN QuotesResult(handler, results)
    ELSE Combined(results)

\* mutant: every sub-operation is handed the first slot
SubcallResult_first(rawSubcallResults, i) == BytesAt(rawSubcallResults, 1)

\* the i-th raw sub-result createBatch hands to subOps[i]
SubcallResult(rawSubcallResults, i) == BytesAt(rawSubcallResults, i)

RECURSIVE handleCallResults(_, _)
handleCallResults(op, callResults) ==
    CASE op.kind = "source" ->
            IF callResults.tag = "uint256[]"
            THEN Quantities(callResults.vals)
            ELSE DecodeError
      [] op.kind = "null" -> Echo(op.protocol, callResults)
      [] op.kind = "batch" ->
            IF callResults.tag # "bytes[]" THEN DecodeError
            ELSE LET results == [i \in 1..Len(op.subOps) |->
                                   handleCallResults(op.subOps[i],
                                       SubcallResult(callResults.sub, i))]
                 IN  IF \E i \in 1..Len(results) : Threw(results[i])
                     THEN DecodeError
                     ELSE resultHandler(op.resultHandler, results)

\* SamplerContractOperation.handleRevert logs and returns []; createBatch's
\* revertHandler is () => [] in getSellQuotes / getBuyQuotes
handleRevert(op, callResults) ==
    CASE op.kind = "source" -> Quantities(<<>>)
      [] op.kind = "null" -> Echo(op.protocol, callResults)
      [] op.kind = "batch" -> Samples(<<>>)

(***************************************************************************)
(* The remote batch entrypoint (samplerContract.callStatic.batchCall).     *)
(* A chain state says, for each path, whether the sample call reverts or   *)
(* which quantities it returns, and what a NULL_BYTES sub-call returns.    *)
(***************************************************************************)
Paths == {<<"X", "Y">>, <<"Y", "Z">>}

PathNo(path) == IF path = <<"X", "Y">> THEN 1 ELSE 2

\* the quantities a path returns when it returns k of them: 10, 19, ...
QuantityList(path, k) == [j \in 1..k |-> 9 * j + PathNo(path)]

Reverts == [ok |-> FALSE, out |-> <<>>]
Returns(quantities) == [ok |-> TRUE, out |-> quantities]

QuoteOutcomes(path) ==
    {Reverts} \cup {Returns(QuantityList(path, k)) : k \in 0..MaxSamples}

AllQuoteOutcomes == UNION {QuoteOutcomes(path) : path \in Paths}

NoChain == [status |-> "none", quote |-> [path \in Paths |-> Reverts],
            null |-> NULL_BYTES]
Rejected == [status |-> "rejected", quote |-> [path \in Paths |-> Reverts],
             null |-> NULL_BYTES]

Chains ==
    {[status |-> "resolved", quote |-> q, null |-> n] :
        q \in {f \in [Paths -> AllQuoteOutcomes] :
                  \A path \in Paths : f[path] \in QuoteOutcomes(path)},
        n \in {NULL_BYTES, RevertData}}

\* the bytes one sub-call yields; a revert inside a batch fills its slot
RECURSIVE RemoteCall(_, _)
RemoteCall(ch, payload) ==
    CASE payload.tag # "call" -> ch.null
      [] payload.tag = "call" /\ payload.fn = "batchCall" ->
            BatchData([i \in 1..Len(payload.sub) |-> RemoteCall(ch, payload.sub[i])])
      [] OTHER ->
            IF ch.quote[payload.path].ok
            THEN QuantitiesData(ch.quote[payload.path].out)
            ELSE RevertData

\* the paths a payload's execution reads, and whether it runs a NULL_BYTES
\* sub-call
RECURSIVE PathsRead(_)
PathsRead(payload) ==
    CASE payload.tag # "call" -> {}
      [] payload.tag = "call" /\ payload.fn = "batchCall" ->
            UNION {PathsRead(payload.sub[i]) : i \in 1..Len(payload.sub)}
      [] OTHER -> {payload.path}

RECURSIVE NullRead(_)
NullRead(payload) ==
    CASE payload.tag # "call" -> TRUE
      [] payload.tag = "call" /\ payload.fn = "batchCall" ->
            \E i \in 1..Len(payload.sub) : NullRead(payload.sub[i])
      [] OTHER -> FALSE

\* ch is a remote state as far as the invocation reads it: what it does not
\* read is left at its default
ReadBy(ch, payloads) ==
    /\ \A path \in Paths :
          (\A i \in 1..Len(payloads) : path \notin PathsRead(payloads[i]))
              => ch.quote[path] = Reverts
    /\ (\A i \in 1..Len(payloads) : ~NullRead(payloads[i])) => ch.null = NULL_BYTES

\* one raw result per payload, in the order sent
batchCall(ch, payloads) ==
    [i \in 1..Len(payloads) |-> RemoteCall(ch, payloads[i])]

(***************************************************************************)
(* Sampler.executeBatchAsync, piece by piece.                              *)
(***************************************************************************)
NoOverrides == [set |-> FALSE, blockNumber |-> 0]
Overrides(n) == [set |-> TRUE, blockNumber |-> n]

\* { blockTag: blockNumber }; an undefined blockTag is the latest block
BlockTag(overrides) ==
    IF overrides.set THEN [tag |-> "number", blockNumber |-> overrides.blockNumber]
    ELSE [tag |-> "latest", blockNumber |-> 0]

\* _.map(ops, o => o.encodeCall())
EncodeAll(opsList) == [i \in 1..Len(opsList) |-> encodeCall(opsList[i])]

\* mutant: the short-circuit is never taken
AllNull_never(cds) == FALSE

\* callDatas.every(cd => cd === NULL_BYTES)
AllNull(cds) == \A i \in 1..Len(cds) : cds[i] = NULL_BYTES

\* mutant: the payloads are sent unfiltered
SentPayloads_unfiltered(cds) == cds

\* _.filter(callDatas, cd => cd !== NULL_BYTES)
SentPayloads(cds) == SelectSeq(cds, LAMBDA cd : cd # NULL_BYTES)

Invocation(cds, overrides) ==
    [payloads |-> SentPayloads(cds), blockTag |-> BlockTag(overrides)]

\* mutant: the raw results are indexed by the operation's index
TakeResult_byIndex(raws, i, rawCallResultsIdx) == BytesAt(raws, i)

\* rawCallResults[rawCallResultsIdx++]
TakeResult(raws, i, rawCallResultsIdx) == BytesAt(raws, rawCallResultsIdx)

\* the walk of lines 260-267: the raw result each ops[i] is handed
RECURSIVE SpliceFrom(_, _, _, _)
SpliceFrom(cds, raws, i, rawCallResultsIdx) ==
    IF i > Len(cds) THEN <<>>
    ELSE IF cds[i] # NULL_BYTES
         THEN <<TakeResult(raws, i, rawCallResultsIdx)>>
                  \o SpliceFrom(cds, raws, i + 1, rawCallResultsIdx + 1)
         ELSE <<NULL_BYTES>> \o SpliceFrom(cds, raws, i + 1, rawCallResultsIdx)

Splice(cds, raws) == SpliceFrom(cds, raws, 1, 1)

NoOutcome == [status |-> "none", value |-> <<>>, error |-> "", protocol |-> ""]
Returned(value) == [status |-> "returned", value |-> value, error |-> "", protocol |-> ""]
Thrown(error, protocol) ==
    [status |-> "threw", value |-> <<>>, error |-> error, protocol |-> protocol]

Handled(method, i) == [method |-> method, index |-> i]

\* _.map(callDatas, (callData, i) => ops[i].handleCallResults(result)): the
\* first handler that throws (or a missing ops[i]) ends the map and rejects
\* the promise
DecodeAll(opsList, raws) ==
    LET results == [i \in 1..Len(raws) |->
                      IF i \in 1..Len(opsList)
                      THEN handleCallResults(opsList[i], raws[i])
                      ELSE DecodeError]
        thrown == {i \in 1..Len(raws) : Threw(results[i])}
        last == IF thrown = {} THEN Len(raws)
                ELSE CHOOSE i \in thrown : \A k \in thrown : i <= k
    IN  [outcome |-> IF thrown = {} THEN Returned(results)
                     ELSE Thrown("DecodeError", ""),
         handled |-> [i \in 1..last |-> Handled("handleCallResults", i)]]

\* mutant: the rejection is caught and every operation's handleRevert runs
RejectOutcome_recover(opsList) ==
    [outcome |-> Returned([i \in 1..Len(opsList) |-> handleRevert(opsList[i], NULL_BYTES)]),
     handled |-> [i \in 1..Len(opsList) |-> Handled("handleRevert", i)]]

\* the await of batchCall rejects: the async function rejects with it
RejectOutcome(opsList) ==
    [outcome |-> Thrown("RemoteExecutionError", ""), handled |-> <<>>]

\* executeBatchAsync(opsList) run on its own against a remote in state ch
executeBatchAsync(opsList, ch) ==
    LET cds == EncodeAll(opsList)
    IN  IF AllNull(cds)
        THEN DecodeAll(opsList, [i \in 1..Len(cds) |-> NULL_BYTES]).outcome
        ELSE IF ch.status = "rejected"
             THEN RejectOutcome(opsList).outcome
             ELSE DecodeAll(opsList,
                            Splice(cds, batchCall(ch, SentPayloads(cds)))).outcome

\* mutant: callDatas is a field of the Sampler, shared by the calls in flight
StoreCallDatas_shared(all, c, cds) == [k \in DOMAIN all |-> cds]

\* the locals written before the await, as the calls in flight hold them
StoreCallDatas(all, c, cds) == [all EXCEPT ![c] = cds]

(***************************************************************************)
(* Inputs of the model.                                                    *)
(***************************************************************************)
SeqsUpTo(S, n) == UNION {[1..k -> S] : k \in 0..n}

AmountLists == {[j \in 1..k |-> 100 * j] : k \in 0..MaxAmounts}

Routes == [protocol : Protocols, path : Paths]
RouteLists == SeqsUpTo(Routes, MaxRoutes)

PlainOps(amounts) ==
    {NullOperation("a"), NullOperation("b")}
        \cup {getUniswapV2SellQuotes(path, amounts, "UniswapV2") : path \in Paths}
PlainLists == SeqsUpTo(PlainOps([j \in 1..MaxAmounts |-> 100 * j]), MaxOps)

BlockNumbers == {12}
OverridesChoices == {NoOverrides} \cup {Overrides(n) : n \in BlockNumbers}

\* the inputs of the calls that run side by side
ConcAmounts == [j \in 1..1 |-> 100]
ConcOps == {NullOperation("a"),
            getUniswapV2SellQuotes(<<"X", "Y">>, ConcAmounts, "UniswapV2")}
ConcLists == SeqsUpTo(ConcOps, 2) \ {<<>>}
ConcChains ==
    {ch \in Chains :
        \E k \in {MaxSamples - 1, MaxSamples} :
            ch.quote[<<"X", "Y">>] = Returns(QuantityList(<<"X", "Y">>, k))}

(***************************************************************************)
(* The state machine.                                                      *)
(***************************************************************************)
NoReq == [method |-> "none", amounts |-> <<>>, routes |-> <<>>, subOps |-> <<>>]
Req(method, amounts, routes, subOps) ==
    [method |-> method, amounts |-> amounts, routes |-> routes, subOps |-> subOps]

InitCalls(n, choices) ==
    /\ samplerOverrides \in choices
    /\ pc = [c \in 1..n |-> "idle"]
    /\ req = [c \in 1..n |-> NoReq]
    /\ ops = [c \in 1..n |-> <<>>]
    /\ callDatas = [c \in 1..n |-> <<>>]
    /\ sent = [c \in 1..n |-> <<>>]
    /\ chain = [c \in 1..n |-> NoChain]
    /\ rawCallResults = [c \in 1..n |-> <<>>]
    /\ handled = [c \in 1..n |-> <<>>]
    /\ outcome = [c \in 1..n |-> NoOutcome]
    /\ beside = [c \in 1..n |-> {}]

Init == InitCalls(1, OverridesChoices)
InitConc == InitCalls(MaxCalls, {NoOverrides})

Calls == DOMAIN pc

\* the caller has built (or failed to build) the operations of call c
Build(c, request, built) ==
    /\ pc[c] = "idle"
    /\ req' = [req EXCEPT ![c] = request]
    /\ ops' = [ops EXCEPT ![c] = built.ops]
    /\ pc' = [pc EXCEPT ![c] = IF built.threw THEN "done" ELSE "built"]
    /\ outcome' = [outcome EXCEPT ![c] =
                      IF built.threw THEN Thrown(built.error, built.protocol) ELSE @]
    /\ UNCHANGED <<samplerOverrides, callDatas, sent, chain, rawCallResults, handled,
                   beside>>

BuildSellQuoteOperations(c) ==
    /\ pc[c] = "idle"
    /\ \E amounts \in AmountLists, routes \in RouteLists :
          Build(c, Req("getSellQuoteOperations", amounts, routes, <<>>),
                getSellQuoteOperations(amounts, routes))

BuildBuyQuoteOperations(c) ==
    /\ pc[c] = "idle"
    /\ \E amounts \in AmountLists, routes \in RouteLists :
          Build(c, Req("getBuyQuoteOperations", amounts, routes, <<>>),
                getBuyQuoteOperations(amounts, routes))

BuildSellQuotes(c) ==
    /\ pc[c] = "idle"
    /\ \E amounts \in AmountLists, routes \in RouteLists :
          Build(c, Req("getSellQuotes", amounts, routes, <<>>),
                getSellQuotes(amounts, routes))

BuildBuyQuotes(c) ==
    /\ pc[c] = "idle"
    /\ \E amounts \in AmountLists, routes \in RouteLists :
          Build(c, Req("getBuyQuotes", amounts, routes, <<>>),
                getBuyQuotes(amounts, routes))

BuildBatch(c, lists) ==
    /\ pc[c] = "idle"
    /\ \E subOps \in lists :
          Build(c, Req("createBatch", <<>>, <<>>, subOps),
                Built(<<createBatch(subOps, CollectHandler)>>))

BuildPlain(c, lists) ==
    /\ pc[c] = "idle"
    /\ \E list \in lists :
          Build(c, Req("executeAsync", <<>>, <<>>, list), Built(list))

\* executeBatchAsync up to its await (lines 247-258), or to its return when
\* every payload is NULL_BYTES
ExecuteBatchAsync(c) ==
    /\ pc[c] = "built"
    /\ LET cds == EncodeAll(ops[c])
           local == DecodeAll(ops[c], [i \in 1..Len(cds) |-> NULL_BYTES])
       IN  /\ callDatas' = StoreCallDatas(callDatas, c, cds)
           /\ IF AllNull(cds)
              THEN /\ outcome' = [outcome EXCEPT ![c] = local.outcome]
                   /\ handled' = [handled EXCEPT ![c] = local.handled]
                   /\ pc' = [pc EXCEPT ![c] = "done"]
                   /\ sent' = sent
              ELSE /\ sent' = [sent EXCEPT ![c] =
                                  Append(@, Invocation(cds, samplerOverrides))]
                   /\ pc' = [pc EXCEPT ![c] = "awaiting"]
                   /\ UNCHANGED <<outcome, handled>>
    /\ UNCHANGED <<samplerOverrides, req, ops, chain, rawCallResults, beside>>

\* the await resolves with the remote's reply; lines 259-267 run
BatchCallResolves(c, chains) ==
    /\ pc[c] = "awaiting"
    /\ \E ch \in chains :
          /\ ReadBy(ch, sent[c][Len(sent[c])].payloads)
          /\ LET raws == batchCall(ch, sent[c][Len(sent[c])].payloads)
                 decoded == DecodeAll(ops[c], Splice(callDatas[c], raws))
             IN  /\ chain' = [chain EXCEPT ![c] = ch]
                 /\ rawCallResults' = [rawCallResults EXCEPT ![c] = raws]
                 /\ outcome' = [outcome EXCEPT ![c] = decoded.outcome]
                 /\ handled' = [handled EXCEPT ![c] = decoded.handled]
    /\ pc' = [pc EXCEPT ![c] = "done"]
    /\ beside' = [beside EXCEPT ![c] = {d \in Calls \ {c} : pc[d] = "awaiting"}]
    /\ UNCHANGED <<samplerOverrides, req, ops, callDatas, sent>>

\* the await rejects: the remote invocation itself failed
BatchCallRejects(c) ==
    /\ pc[c] = "awaiting"
    /\ chain' = [chain EXCEPT ![c] = Rejected]
    /\ outcome' = [outcome EXCEPT ![c] = RejectOutcome(ops[c]).outcome]
    /\ handled' = [handled EXCEPT ![c] = RejectOutcome(ops[c]).handled]
    /\ pc' = [pc EXCEPT ![c] = "done"]
    /\ UNCHANGED <<samplerOverrides, req, ops, callDatas, sent, rawCallResults, beside>>

Next ==
    \/ \E c \in Calls : BuildSellQuoteOperations(c)
    \/ \E c \in Calls : BuildBuyQuoteOperations(c)
    \/ \E c \in Calls : BuildSellQuotes(c)
    \/ \E c \in Calls : BuildBuyQuotes(c)
    \/ \E c \in Calls : BuildBatch(c, PlainLists)
    \/ \E c \in Calls : BuildPlain(c, PlainLists)
    \/ \E c \in Calls : ExecuteBatchAsync(c)
    \/ \E c \in Calls : BatchCallResolves(c, Chains)
    \/ \E c \in Calls : BatchCallRejects(c)

Spec == Init /\ [][Next]_vars

\* several executeBatchAsync calls in flight on one Sampler
NextConc ==
    \/ \E c \in Calls : BuildPlain(c, ConcLists)
    \/ \E c \in Calls : ExecuteBatchAsync(c)
    \/ \E c \in Calls : BatchCallResolves(c, ConcChains)
    \/ \E c \in Calls : BatchCallRejects(c)

SpecConc == InitConc /\ [][NextConc]_vars

(***************************************************************************)
(* Properties.                                                             *)
(***************************************************************************)
UnsupportedErrors ==
    {"Unsupported sell sample protocol", "Unsupported buy sample protocol"}

\* call c went through executeBatchAsync and has settled
Executed(c) == pc[c] = "done" /\ outcome[c].error \notin UnsupportedErrors

\* call c settled on a reply of the remote
Replied(c) == Executed(c) /\ chain[c].status # "rejected"

IsNull(op) == encodeCall(op) = NULL_BYTES

\* the number of non-sentinel payloads among opsList[1..i-1]
NonNullBefore(opsList, i) ==
    Cardinality({k \in 1..(i - 1) : ~IsNull(opsList[k])})

\* r_i: the sentinel for a sentinel payload, else the k-th raw result
ExpectedRaw(c, i) ==
    IF IsNull(ops[c][i]) THEN NULL_BYTES
    ELSE rawCallResults[c][NonNullBefore(ops[c], i) + 1]

ExpectedResults(c) ==
    [i \in 1..Len(ops[c]) |-> handleCallResults(ops[c][i], ExpectedRaw(c, i))]

\* C1: when the remote replied with one raw result per sent payload, the
\* call returns one result per operation, result[i] being ops[i]'s decoding
\* of the sentinel (sentinel payload) or of the k-th raw result, k counting
\* the non-sentinel payloads before i; a handler that throws fails the call.
C1_ResultsAligned ==
    \A c \in Calls :
        Replied(c) =>
            /\ Len(rawCallResults[c]) = Cardinality({i \in 1..Len(ops[c]) : ~IsNull(ops[c][i])})
            /\ IF \E i \in 1..Len(ops[c]) : Threw(ExpectedResults(c)[i])
               THEN outcome[c].status = "threw"
               ELSE /\ outcome[c].status = "returned"
                    /\ Len(outcome[c].value) = Len(ops[c])
                    /\ \A i \in 1..Len(ops[c]) :
                          outcome[c].value[i] = ExpectedResults(c)[i]

\* a sentinel operation ahead of a real one: the cursor and the index differ
C1_Witness ==
    \E c \in Calls :
        /\ Replied(c)
        /\ Len(ops[c]) = 2
        /\ IsNull(ops[c][1]) /\ ~IsNull(ops[c][2])
        /\ outcome[c].status = "returned"
        /\ outcome[c].value[1] = Echo(ops[c][1].protocol, NULL_BYTES)
        /\ Len(outcome[c].value[2].vals) = 2

\* C2: when every payload is the sentinel, no remote invocation is made and
\* result[i] is ops[i]'s decoding of the sentinel.
C2_AllSentinelLocal ==
    \A c \in Calls :
        (pc[c] # "idle" /\ \A i \in 1..Len(ops[c]) : IsNull(ops[c][i])) =>
            /\ sent[c] = <<>>
            /\ Executed(c) =>
                  /\ outcome[c].status = "returned"
                  /\ Len(outcome[c].value) = Len(ops[c])
                  /\ \A i \in 1..Len(ops[c]) :
                        outcome[c].value[i] = handleCallResults(ops[c][i], NULL_BYTES)

C2_Witness ==
    \E c \in Calls :
        /\ Executed(c)
        /\ Len(ops[c]) = 2
        /\ \A i \in 1..Len(ops[c]) : IsNull(ops[c][i])
        /\ ops[c][1] # ops[c][2]
        /\ sent[c] = <<>>
        /\ outcome[c].status = "returned"

\* C9: when some payload is not the sentinel, the call makes exactly one
\* remote invocation; it carries the non-sentinel payloads in their order
\* and no sentinel, and is pinned to samplerOverrides.blockNumber, or to
\* the latest block when none is set.
C9_OneInvocation ==
    \A c \in Calls :
        (\E i \in 1..Len(ops[c]) : ~IsNull(ops[c][i])) =>
            /\ Len(sent[c]) <= 1
            /\ pc[c] \in {"awaiting", "done"} =>
                  /\ Len(sent[c]) = 1
                  /\ Len(sent[c][1].payloads) =
                        Cardinality({i \in 1..Len(ops[c]) : ~IsNull(ops[c][i])})
                  /\ \A i \in 1..Len(ops[c]) :
                        ~IsNull(ops[c][i]) =>
                            sent[c][1].payloads[NonNullBefore(ops[c], i) + 1]
                                = encodeCall(ops[c][i])
                  /\ \A k \in 1..Len(sent[c][1].payloads) :
                        sent[c][1].payloads[k] # NULL_BYTES
                  /\ sent[c][1].blockTag =
                        IF samplerOverrides.set
                        THEN [tag |-> "number",
                              blockNumber |-> samplerOverrides.blockNumber]
                        ELSE [tag |-> "latest", blockNumber |-> 0]

C9_Witness ==
    \E c \in Calls :
        /\ pc[c] = "done"
        /\ Len(ops[c]) = 2
        /\ ~IsNull(ops[c][1]) /\ IsNull(ops[c][2])
        /\ Len(sent[c]) = 1
        /\ sent[c][1].payloads = <<encodeCall(ops[c][1])>>
        /\ sent[c][1].blockTag.tag = "number"

\* the routes of call c's request and the sub-operations built from them
HasRoutes(c) ==
    req[c].method \in {"getSellQuoteOperations", "getBuyQuoteOperations",
                       "getSellQuotes", "getBuyQuotes"}
IsSell(c) == req[c].method \in {"getSellQuoteOperations", "getSellQuotes"}
IsQuotes(c) == req[c].method \in {"getSellQuotes", "getBuyQuotes"}
AllSupported(routes) ==
    \A i \in 1..Len(routes) : routes[i].protocol \in {"UniswapV2", "SushiSwap"}
Expanded(c) == IF IsQuotes(c) THEN ops[c][1].subOps ELSE ops[c]

\* C6: a route with a classification other than UniswapV2 and SushiSwap
\* makes the expansion fail with an unsupported-protocol error naming an
\* unrecognized classification of the routes (the first one); no operation
\* is returned for the other routes and no remote invocation is made.
C6_UnsupportedFailsFast ==
    \A c \in Calls :
        (HasRoutes(c) /\ ~AllSupported(req[c].routes)) =>
            /\ pc[c] = "done"
            /\ outcome[c].status = "threw"
            /\ outcome[c].error = IF IsSell(c) THEN "Unsupported sell sample protocol"
                                  ELSE "Unsupported buy sample protocol"
            /\ outcome[c].protocol \notin {"UniswapV2", "SushiSwap"}
            /\ \E i \in 1..Len(req[c].routes) :
                  /\ req[c].routes[i].protocol = outcome[c].protocol
                  /\ AllSupported(SubSeq(req[c].routes, 1, i - 1))
            /\ ops[c] = <<>>
            /\ sent[c] = <<>>
            /\ handled[c] = <<>>

\* a recognized route ahead of an unrecognized one
C6_Witness ==
    \E c \in Calls :
        /\ req[c].method = "getSellQuotes"
        /\ Len(req[c].routes) = 2
        /\ req[c].routes[1].protocol = "SushiSwap"
        /\ req[c].routes[2].protocol = "Curve"
        /\ outcome[c] = Thrown("Unsupported sell sample protocol", "Curve")

\* C7: for recognized routes the expansion gives one operation per route,
\* in the order of the routes; operation i carries routes[i].protocol,
\* routes[i].path and the amounts list as given.
C7_OnePerRoute ==
    \A c \in Calls :
        (HasRoutes(c) /\ AllSupported(req[c].routes)) =>
            /\ pc[c] # "idle"
            /\ outcome[c].error \notin UnsupportedErrors
            /\ IsQuotes(c) => Len(ops[c]) = 1 /\ ops[c][1].kind = "batch"
            /\ Len(Expanded(c)) = Len(req[c].routes)
            /\ \A i \in 1..Len(req[c].routes) :
                  /\ Expanded(c)[i].kind = "source"
                  /\ Expanded(c)[i].protocol = req[c].routes[i].protocol
                  /\ Expanded(c)[i].path = req[c].routes[i].path
                  /\ Expanded(c)[i].amounts = req[c].amounts
                  /\ Expanded(c)[i].functionName =
                        IF IsSell(c) THEN "sampleSellsFromUniswapV2"
                        ELSE "sampleBuysFromUniswapV2"

\* two routes of one classification, SushiSwap, and of different paths
C7_Witness ==
    \E c \in Calls :
        /\ req[c].method = "getSellQuoteOperations"
        /\ Len(req[c].routes) = 2
        /\ req[c].routes[1].protocol = "SushiSwap"
        /\ req[c].routes[2].protocol = "SushiSwap"
        /\ req[c].routes[1].path # req[c].routes[2].path
        /\ Len(req[c].amounts) = 2
        /\ Len(ops[c]) = 2
        /\ ops[c][1] # ops[c][2]

\* samples[i]: the quantities sub-operation i decoded from its slot
SamplesOf(c, i) ==
    handleCallResults(ops[c][1].subOps[i], rawCallResults[c][1].sub[i]).vals

\* C8: the decoded result of getSellQuotes / getBuyQuotes has one row per
\* route in the order of the routes; row i has one entry per quantity of
\* samples[i], and entry j is the sample (routes[i].protocol, amounts[j],
\* samples[i][j]).
C8_RoutesMajor ==
    \A c \in Calls :
        (IsQuotes(c) /\ Replied(c) /\ outcome[c].status = "returned") =>
            /\ Len(outcome[c].value) = 1
            /\ outcome[c].value[1].kind = "samples"
            /\ Len(outcome[c].value[1].rows) = Len(req[c].routes)
            /\ \A i \in 1..Len(req[c].routes) :
                  /\ Len(outcome[c].value[1].rows[i]) = Len(SamplesOf(c, i))
                  /\ \A j \in 1..Len(SamplesOf(c, i)) :
                        j <= Len(req[c].amounts) =>
                            outcome[c].value[1].rows[i][j] =
                                [protocol |-> req[c].routes[i].protocol,
                                 input |-> req[c].amounts[j],
                                 output |-> SamplesOf(c, i)[j]]

\* amounts [100, 200], one route, remote quantities [10, 19]
C8_Witness ==
    \E c \in Calls :
        /\ req[c].method = "getSellQuotes"
        /\ req[c].amounts = <<100, 200>>
        /\ req[c].routes = <<[protocol |-> "SushiSwap", path |-> <<"X", "Y">>]>>
        /\ Replied(c)
        /\ outcome[c].status = "returned"
        /\ outcome[c].value[1].rows =
              <<<<[protocol |-> "SushiSwap", input |-> 100, output |-> 10],
                  [protocol |-> "SushiSwap", input |-> 200, output |-> 19]>>>>

\* C5: when the remote invocation itself fails, the call fails with that
\* error: no result list, a single remote invocation, no handler invoked.
C5_RejectionPropagates ==
    \A c \in Calls :
        chain[c].status = "rejected" =>
            /\ pc[c] = "done"
            /\ outcome[c].status = "threw"
            /\ outcome[c].error = "RemoteExecutionError"
            /\ outcome[c].value = <<>>
            /\ Len(sent[c]) = 1
            /\ handled[c] = <<>>
            /\ rawCallResults[c] = <<>>

C5_Witness ==
    \E c \in Calls :
        /\ chain[c].status = "rejected"
        /\ Len(ops[c]) = 2
        /\ Len(sent[c]) = 1
        /\ outcome[c] = Thrown("RemoteExecutionError", "")

\* call c ran one composed operation and the remote replied
Composed(c) ==
    /\ Replied(c)
    /\ chain[c].status = "resolved"
    /\ Len(ops[c]) = 1
    /\ ops[c][1].kind = "batch"

\* what the claim of C3 expects of a slot: handleRevert's neutral value for
\* an error-tagged slot, the decoded value for any other
Absorbed(op, raw) ==
    IF raw.tag = "error" THEN handleRevert(op, raw) ELSE handleCallResults(op, raw)

\* C3: when exactly one of N > 1 sub-operations gets an error-tagged raw
\* result while the remote invocation succeeds, that sub-operation gets its
\* neutral value (handleRevert), the others their decoded values, and no
\* error is propagated; stated for the sub-operations of a composed
\* operation and for the operations of a plain batch.
C3_OneFailureAbsorbed ==
    \A c \in Calls :
        /\ (/\ Composed(c)
            /\ Len(ops[c][1].subOps) > 1
            /\ \A i \in 1..Len(ops[c][1].subOps) : ops[c][1].subOps[i].kind = "source"
            /\ Cardinality({i \in 1..Len(ops[c][1].subOps) :
                              rawCallResults[c][1].sub[i].tag = "error"}) = 1)
           => outcome[c] =
                 Returned(<<resultHandler(ops[c][1].resultHandler,
                              [i \in 1..Len(ops[c][1].subOps) |->
                                 Absorbed(ops[c][1].subOps[i],
                                          rawCallResults[c][1].sub[i])])>>)
        /\ (/\ Replied(c)
            /\ chain[c].status = "resolved"
            /\ Len(ops[c]) > 1
            /\ \A i \in 1..Len(ops[c]) : ops[c][i].kind = "source"
            /\ Cardinality({i \in 1..Len(ops[c]) : rawCallResults[c][i].tag = "error"}) = 1)
           => outcome[c] =
                 Returned([i \in 1..Len(ops[c]) |->
                             Absorbed(ops[c][i], rawCallResults[c][i])])

\* the result of executeBatch(subOps) followed by combine, as an outcome
CombineAfter(handler, direct) ==
    IF direct.status = "returned"
    THEN Returned(<<resultHandler(handler, direct.value)>>)
    ELSE direct

\* C4 as stated: for every list subOps, sentinel payloads included, the
\* composed operation run through the executor gives what running subOps
\* through the executor and then applying combine gives.
C4_TransparentAnySubOps ==
    \A c \in Calls :
        Composed(c) =>
            outcome[c] = CombineAfter(ops[c][1].resultHandler,
                                      executeBatchAsync(ops[c][1].subOps, chain[c]))

\* C4 amended: the same, for lists subOps none of whose payloads is the
\* sentinel, both runs seeing the same remote state and a remote reply.
C4_TransparentNoSentinel ==
    \A c \in Calls :
        (Composed(c) /\ \A i \in 1..Len(ops[c][1].subOps) : ~IsNull(ops[c][1].subOps[i])) =>
            outcome[c] = CombineAfter(ops[c][1].resultHandler,
                                      executeBatchAsync(ops[c][1].subOps, chain[c]))

\* two sub-operations of different paths, each decoding its own quantities
C4_Witness ==
    \E c \in Calls :
        /\ Composed(c)
        /\ req[c].method = "createBatch"
        /\ Len(ops[c][1].subOps) = 2
        /\ \A i \in 1..2 : ~IsNull(ops[c][1].subOps[i])
        /\ ops[c][1].subOps[1].path # ops[c][1].subOps[2].path
        /\ outcome[c].status = "returned"
        /\ Len(outcome[c].value[1].parts[1].vals) = 2
        /\ Len(outcome[c].value[1].parts[2].vals) = 1

\* C10: calls in flight together on one Sampler do not interfere: each
\* settles with what executeBatchAsync gives for its own operations and its
\* own remote reply when run alone, and the Sampler's overrides and the
\* operations of a call are not written while calls run.
C10_NoInterference ==
    \A c \in Calls :
        /\ pc[c] = "done" => outcome[c] = executeBatchAsync(ops[c], chain[c])
        /\ pc[c] \in {"awaiting", "done"} => callDatas[c] = EncodeAll(ops[c])
        /\ pc[c] # "idle" => ops[c] = req[c].subOps

\* call 1 resumed while call 2 was suspended; both settled, on different
\* operations and different replies
C10_Witness ==
    /\ {1, 2} \subseteq Calls
    /\ pc[1] = "done" /\ pc[2] = "done"
    /\ beside[1] = {2}
    /\ Len(ops[1]) # Len(ops[2])
    /\ chain[1].status = "resolved" /\ chain[2].status = "resolved"
    /\ chain[1] # chain[2]
    /\ outcome[1].status = "returned" /\ outcome[2].status = "returned"
    /\ outcome[1].value # outcome[2].value

====
